---------------------------- MODULE Spec2Model ----------------------------
(***************************************************************************)
(* Model of main.py: the Flask endpoint POST /predict (predict), the      *)
(* landing page GET / (index) and the scoring function                    *)
(* predict_match_outcome.                                                  *)
(*                                                                         *)
(* Python values are tagged records [kind, str, list]: a str carries its  *)
(* characters, a list its elements (one-character result codes).          *)
(* Confidences are integers counting units of 1/(100*Grid), so a value    *)
(* with two decimals is a multiple of Grid and values between two         *)
(* hundredths exist.  Every record is written with its keys in the order  *)
(* in which the names first occur in this module.                         *)
(***************************************************************************)
EXTENDS Integers, Sequences, FiniteSets, TLC

VARIABLES request, response, call, result, prev

vars == <<request, response, call, result, prev>>

---------------------------------------------------------------------------
(* Bounds of the model *)

\* units per hundredth of confidence
Grid == 3
\* the short forms are all code sequences up to this length
MaxLen == 2
\* the long forms hold up to this many 'W'
MaxWins == 11

---------------------------------------------------------------------------
(* Python values *)

PyStr(s) == [kind |-> "str", str |-> s, list |-> <<>>]
PyList(l) == [kind |-> "list", str |-> <<>>, list |-> l]
PyNone == [kind |-> "NoneType", str |-> <<>>, list |-> <<>>]
PyInt == [kind |-> "int", str |-> <<>>, list |-> <<>>]
\* a key that a dict does not hold
Absent == [kind |-> "absent", str |-> <<>>, list |-> <<>>]

football == <<"f", "o", "o", "t", "b", "a", "l", "l">>
basketball == <<"b", "a", "s", "k", "e", "t", "b", "a", "l", "l">>
rugby == <<"r", "u", "g", "b", "y">>
cricket == <<"c", "r", "i", "c", "k", "e", "t">>
Football == <<"F", "o", "o", "t", "b", "a", "l", "l">>
RUGBY == <<"R", "U", "G", "B", "Y">>
Draw == <<"D", "r", "a", "w">>
Lions == <<"L", "i", "o", "n", "s">>
Tigers == <<"T", "i", "g", "e", "r", "s">>

\* str.lower() on one character, for the letters the model's strings use
LowerChar(c) ==
    CASE c = "B" -> "b"
      [] c = "D" -> "d"
      [] c = "F" -> "f"
      [] c = "G" -> "g"
      [] c = "L" -> "l"
      [] c = "R" -> "r"
      [] c = "T" -> "t"
      [] c = "U" -> "u"
      [] c = "Y" -> "y"
      [] OTHER -> c

\* mutant of lower: the string is kept as it is
lowerKept(s) == s

lower(s) == [i \in DOMAIN s |-> LowerChar(s[i])]

RECURSIVE Count(_, _)
\* list.count(x) / str.count(x) for a one-character x
Count(seq, x) ==
    IF seq = <<>> THEN 0
    ELSE (IF Head(seq) = x THEN 1 ELSE 0) + Count(Tail(seq), x)

\* the elements (or characters) .count() runs over
Items(v) == IF v.kind = "list" THEN v.list ELSE v.str

\* whether the value has a .count method
HasCount(v) == v.kind \in {"list", "str"}

\* whether the value has a .lower method
HasLower(v) == v.kind = "str"

\* the message of the AttributeError raised by v.attr
AttributeError(v, attr) == <<"AttributeError", v.kind, attr>>

---------------------------------------------------------------------------
(* Confidence arithmetic *)

BaseConfidence == 50
StepConfidence == 5
MaxConfidence == 95
TieConfidence == 50
DrawLow == 30
DrawHigh == 50

Min(a, b) == IF a < b THEN a ELSE b

\* The rounding error of binary floating point: 0.5 + d * 0.05 is the
\* decimal value or a neighbour of it (0.5 + 7 * 0.05 is
\* 0.8500000000000001), here at most one unit either way.
FloatErr == {-1, 0, 1}

\* 0.5 + (wins - other) * 0.05, every value the float sum may take
Weighted(wins, other) ==
    {(BaseConfidence + (wins - other) * StepConfidence) * Grid + e : e \in FloatErr}

\* mutant of Capped: the cap is 1.0
CappedAtOne(confidence) == Min(confidence, 100 * Grid)

\* min(confidence, 0.95)
Capped(confidence) == Min(confidence, MaxConfidence * Grid)

\* round(confidence, 2): to the nearest hundredth, a tie to the even one
Round2(confidence) ==
    LET q == confidence \div Grid
        r == confidence % Grid
    IN  IF 2 * r < Grid THEN q * Grid
        ELSE IF 2 * r > Grid THEN (q + 1) * Grid
        ELSE IF q % 2 = 0 THEN q * Grid
        ELSE (q + 1) * Grid

\* random.choice(seq): every element may be returned
choice(seq) == {seq[i] : i \in DOMAIN seq}

\* mutant of uniform: random.random() in its place, a value of [0, 1]
uniformUnit(a, b) == {0, 1, 50 * Grid, 100 * Grid - 1, 100 * Grid}

\* random.uniform(a, b) is a + (b - a) * random() with random() in [0, 1):
\* a value N with a <= N <= b; the float sum can round to b itself
\* (0.3 + (0.5 - 0.3) * (1 - 2^-53) is 0.5).  The draws are sampled at both
\* ends, next to both ends and in the middle.
uniform(a, b) ==
    {a * Grid, a * Grid + 1, ((a + b) * Grid) \div 2, b * Grid - 1, b * Grid}

---------------------------------------------------------------------------
(* predict_match_outcome *)

WinKeys == {"prediction", "winning_team", "losing_team", "confidence"}
DrawKeys == {"prediction", "confidence"}

\* no call has returned
NoResult ==
    [confidence |-> 0, state |-> "none", exc |-> <<>>, keys |-> {},
     prediction |-> "", winning_team |-> Absent, losing_team |-> Absent]

\* the call ended by raising an exception with this message
Raised(message) == [NoResult EXCEPT !.state = "raised", !.exc = message]

\* the dict returned for a predicted winner
WinRecord(winner, loser, confidence) ==
    [confidence |-> Round2(confidence), state |-> "returned", exc |-> <<>>,
     keys |-> WinKeys, prediction |-> "win", winning_team |-> winner,
     losing_team |-> loser]

\* the dict returned for a predicted draw
DrawRecord(confidence) ==
    [confidence |-> confidence, state |-> "returned", exc |-> <<>>,
     keys |-> DrawKeys, prediction |-> "Draw", winning_team |-> Absent,
     losing_team |-> Absent]

\* mutant of AllowsDraw: every sport but basketball has draws
AllowsDrawButBasketball(sport) == sport # PyStr(basketball)

\* sport == 'football'
AllowsDraw(sport) == sport = PyStr(football)

\* mutant of Loser: the loser is always team_b
LoserAlwaysB(winner, team_a, team_b) == team_b

\* team_b if winner == team_a else team_a
Loser(winner, team_a, team_b) == IF winner = team_a THEN team_b ELSE team_a

\* the branch taken when both teams have as many wins
TieOutcomes(sport, team_a, team_b) ==
    IF AllowsDraw(sport)
    THEN {IF outcome = PyStr(Draw)
          THEN DrawRecord(u)
          ELSE WinRecord(outcome, Loser(outcome, team_a, team_b),
                         Capped(TieConfidence * Grid)) :
            outcome \in choice(<<team_a, team_b, PyStr(Draw)>>),
            u \in uniform(DrawLow, DrawHigh)}
    ELSE {WinRecord(winner, Loser(winner, team_a, team_b),
                    Capped(TieConfidence * Grid)) :
            winner \in choice(<<team_a, team_b>>)}

\* every result the call can produce: a returned dict or a raised exception
predict_match_outcome(sport, team_a, team_b, team_a_form, team_b_form) ==
    IF ~HasCount(team_a_form)
    THEN {Raised(AttributeError(team_a_form, "count"))}
    ELSE IF ~HasCount(team_b_form)
    THEN {Raised(AttributeError(team_b_form, "count"))}
    ELSE
      LET team_a_wins == Count(Items(team_a_form), "W")
          team_b_wins == Count(Items(team_b_form), "W")
      IN  IF team_a_wins > team_b_wins
          THEN {WinRecord(team_a, team_b, Capped(confidence)) :
                  confidence \in Weighted(team_a_wins, team_b_wins)}
          ELSE IF team_b_wins > team_a_wins
          THEN {WinRecord(team_b, team_a, Capped(confidence)) :
                  confidence \in Weighted(team_b_wins, team_a_wins)}
          ELSE TieOutcomes(sport, team_a, team_b)

\* the arguments of a call of predict_match_outcome
Args(sport, team_a, team_b, team_a_form, team_b_form) ==
    [sport |-> sport, team_a |-> team_a, team_b |-> team_b,
     team_a_form |-> team_a_form, team_b_form |-> team_b_form, invoked |-> TRUE]

\* predict_match_outcome has not been called
NoCall ==
    [sport |-> Absent, team_a |-> Absent, team_b |-> Absent,
     team_a_form |-> Absent, team_b_form |-> Absent, invoked |-> FALSE]

---------------------------------------------------------------------------
(* The /predict and / handlers *)

required_fields == <<"sport", "team_a", "team_b", "team_a_form", "team_b_form">>

supported_sports == <<football, basketball, rugby>>

\* The value request.get_json() returns: None (body "none") or a dict (body
\* "object") holding the required fields that are not Absent, and some
\* other key when extra is set.
Body(kind, extra, sport, team_a, team_b, team_a_form, team_b_form) ==
    [sport |-> sport, team_a |-> team_a, team_b |-> team_b,
     team_a_form |-> team_a_form, team_b_form |-> team_b_form,
     extra |-> extra, route |-> "/predict", body |-> kind]

\* no request has been received
NoRequest ==
    [sport |-> Absent, team_a |-> Absent, team_b |-> Absent,
     team_a_form |-> Absent, team_b_form |-> Absent,
     extra |-> FALSE, route |-> "", body |-> "none"]

\* a GET / request
IndexRequest == [NoRequest EXCEPT !.route = "/"]

\* field in data
In(field, data) == data[field] # Absent

\* not data: None and the empty dict are falsy
Falsy(data) ==
    \/ data.body = "none"
    \/ /\ ~data.extra
       /\ \A i \in DOMAIN required_fields : ~In(required_fields[i], data)

\* x in seq, for a Python list
InList(x, seq) == \E i \in DOMAIN seq : seq[i] = x

\* no response has been sent
NoResponse ==
    [kind |-> "none", prediction |-> NoResult, sport |-> <<>>, field |-> "",
     status |-> 0, error |-> "", supported |-> <<>>, details |-> <<>>]

\* jsonify({'error': 'No data provided'}), 400
NoData ==
    [NoResponse EXCEPT !.status = 400, !.kind = "json",
                       !.error = "No data provided"]

\* jsonify({'error': f'Missing field: {field}'}), 400
MissingField(field) ==
    [NoResponse EXCEPT !.status = 400, !.kind = "json",
                       !.error = "Missing field: {field}", !.field = field]

\* jsonify({'error': f"Sport '{sport}' is not supported. Supported sports
\* are: {supported_sports}"}), 400
Unsupported(sport) ==
    [NoResponse EXCEPT !.status = 400, !.kind = "json",
                       !.error = "Sport '{sport}' is not supported. Supported sports are: {supported_sports}",
                       !.sport = sport, !.supported = supported_sports]

\* jsonify(prediction_result), with the default status 200
Ok(prediction_result) ==
    [NoResponse EXCEPT !.status = 200, !.kind = "json",
                       !.prediction = prediction_result]

\* jsonify({'error': 'An error occurred during prediction.',
\* 'details': str(e)}), 500
PredictionError(message) ==
    [NoResponse EXCEPT !.status = 500, !.kind = "json",
                       !.error = "An error occurred during prediction.",
                       !.details = message]

\* An exception left the view function: Flask answers with its own error
\* page (status 500), not with a body the handler built.
Unhandled(message) ==
    [NoResponse EXCEPT !.status = 500, !.kind = "unhandled", !.details = message]

\* the landing page
IndexPage == [NoResponse EXCEPT !.status = 200, !.kind = "html"]

\* what handling one request leaves: the response, the call made (if any)
\* and what the call produced
Handled(resp, args, res) == [response |-> resp, call |-> args, result |-> res]

RECURSIVE CheckFields(_, _)
\* the loop over required_fields from index i on: the response of the first
\* field that is not in data, NoResponse when every field is there
CheckFields(data, i) ==
    IF i > Len(required_fields) THEN NoResponse
    ELSE IF ~In(required_fields[i], data) THEN MissingField(required_fields[i])
    ELSE CheckFields(data, i + 1)

\* the try block around the call of predict_match_outcome
GetPrediction(sport, team_a, team_b, team_a_form, team_b_form) ==
    {Handled(IF r.state = "raised" THEN PredictionError(r.exc) ELSE Ok(r),
             Args(sport, team_a, team_b, team_a_form, team_b_form), r) :
       r \in predict_match_outcome(sport, team_a, team_b, team_a_form, team_b_form)}

\* every way the view function predict() can handle the body data
predict(data) ==
    IF Falsy(data) THEN {Handled(NoData, NoCall, NoResult)}
    ELSE IF CheckFields(data, 1) # NoResponse
    THEN {Handled(CheckFields(data, 1), NoCall, NoResult)}
    ELSE IF ~HasLower(data.sport)
    THEN {Handled(Unhandled(AttributeError(data.sport, "lower")), NoCall, NoResult)}
    ELSE
      LET sport == lower(data.sport.str)
      IN  IF ~InList(sport, supported_sports)
          THEN {Handled(Unsupported(sport), NoCall, NoResult)}
          ELSE GetPrediction(PyStr(sport), data.team_a, data.team_b,
                             data.team_a_form, data.team_b_form)

---------------------------------------------------------------------------
(* Inputs *)

Codes == {"W", "D", "L"}

\* k times 'W'
Wins(k) == [i \in 1..k |-> "W"]

\* every sequence of codes up to MaxLen, and longer runs of wins after a loss
Forms ==
    UNION {[1..k -> Codes] : k \in 0..MaxLen}
      \cup {<<"L">> \o Wins(k) : k \in (MaxLen + 1)..MaxWins}

Names == {Lions, Tigers, Draw}

\* the sports predict_match_outcome is called with
Sports == {football, basketball, rugby, cricket}

\* the request bodies posted to /predict
Bodies ==
    {Body("none", FALSE, Absent, Absent, Absent, Absent, Absent),
     Body("object", TRUE, Absent, Absent, Absent, Absent, Absent)}
      \cup
    {Body("object", FALSE, sport, team_a, team_b, team_a_form, team_b_form) :
       sport \in {Absent, PyNone, PyInt, PyStr(football), PyStr(Football),
                  PyStr(basketball), PyStr(RUGBY), PyStr(cricket)},
       team_a \in {Absent, PyStr(Lions), PyStr(Draw)},
       team_b \in {Absent, PyStr(Tigers)},
       team_a_form \in {Absent, PyInt, PyList(<<"W", "L">>), PyList(<<"D">>)},
       team_b_form \in {Absent, PyList(<<"W">>), PyList(<<"L", "D">>)}}

---------------------------------------------------------------------------
(* The server: requests arrive one after the other *)

Init ==
    /\ request = NoRequest
    /\ response = NoResponse
    /\ call = NoCall
    /\ result = NoResult
    /\ prev = 0

\* mutant of PostOf: the last prediction is kept and served again to the
\* next request for the same two teams
PostOfCached(data) ==
    \E h \in predict(data) :
      /\ request' = data
      /\ response' = IF /\ response.status = 200
                        /\ response.kind = "json"
                        /\ h.response.status = 200
                        /\ request.team_a = data.team_a
                        /\ request.team_b = data.team_b
                     THEN response
                     ELSE h.response
      /\ call' = h.call
      /\ result' = h.result
      /\ prev' = response.status

\* POST /predict with the body data, handled by predict(); prev keeps the
\* status of the response before
PostOf(data) ==
    \E h \in predict(data) :
      /\ request' = data
      /\ response' = h.response
      /\ call' = h.call
      /\ result' = h.result
      /\ prev' = response.status

Post == \E data \in Bodies : PostOf(data)

\* GET /, handled by index()
Index ==
    /\ request' = IndexRequest
    /\ response' = IndexPage
    /\ call' = NoCall
    /\ result' = NoResult
    /\ prev' = response.status

Next == Post \/ Index

Spec == Init /\ [][Next]_vars

---------------------------------------------------------------------------
(* predict_match_outcome alone, called once with arguments of the right
   types *)

InitFn ==
    /\ request = NoRequest
    /\ response = NoResponse
    /\ prev = 0
    /\ result = NoResult
    /\ call \in {Args(PyStr(sport), PyStr(team_a), PyStr(team_b),
                      PyList(team_a_form), PyList(team_b_form)) :
                   sport \in Sports, team_a \in Names, team_b \in Names,
                   team_a_form \in Forms, team_b_form \in Forms}

Invoke ==
    /\ result = NoResult
    /\ result' \in predict_match_outcome(call.sport, call.team_a, call.team_b,
                                         call.team_a_form, call.team_b_form)
    /\ UNCHANGED <<request, response, call, prev>>

NextFn == Invoke

SpecFn == InitFn /\ [][NextFn]_vars

---------------------------------------------------------------------------
(* Properties of predict_match_outcome (checked under SpecFn) *)

\* the number of 'W' entries of a form, counted without Count
WCount(form) == Cardinality({i \in DOMAIN form.list : form.list[i] = "W"})

wa == WCount(call.team_a_form)
wb == WCount(call.team_b_form)

\* the call was made and returned a dict
Returned == call.invoked /\ result.state = "returned"

\* a win record: all four keys, prediction 'win'
IsWin(r) == r.keys = WinKeys /\ r.prediction = "win"

\* a draw record: prediction 'Draw', a confidence, and no team keys
IsDraw(r) ==
    /\ r.keys = DrawKeys
    /\ r.prediction = "Draw"
    /\ r.winning_team = Absent
    /\ r.losing_team = Absent

\* C1: when the 'W' counts differ, the result is the win record of the team
\* with more 'W', the other team losing, with confidence
\* min(50 + 5*|wa-wb|, 95) hundredths; it is fixed by the two names and the
\* two counts alone (the sport, the order of the codes and the 'D'/'L'
\* entries do not enter the right-hand side).
C1_UnequalWins ==
    (call.invoked /\ result.state # "none" /\ wa # wb) =>
      result =
        [confidence |->
           Grid * (IF BaseConfidence + StepConfidence * (IF wa > wb THEN wa - wb ELSE wb - wa)
                        < MaxConfidence
                   THEN BaseConfidence + StepConfidence * (IF wa > wb THEN wa - wb ELSE wb - wa)
                   ELSE MaxConfidence),
         state |-> "returned", exc |-> <<>>, keys |-> WinKeys,
         prediction |-> "win",
         winning_team |-> IF wa > wb THEN call.team_a ELSE call.team_b,
         losing_team |-> IF wa > wb THEN call.team_b ELSE call.team_a]

\* C1 witness: team_b wins by ten or more 'W' over a form that also holds
\* a 'D', in a sport that is not football, and the cap applies
C1_Witness ==
    /\ Returned
    /\ wb >= wa + 10
    /\ \E i \in DOMAIN call.team_a_form.list : call.team_a_form.list[i] = "D"
    /\ call.sport = PyStr(cricket)
    /\ result.winning_team = call.team_b
    /\ result.confidence = MaxConfidence * Grid

\* C2: on equal 'W' counts in basketball or rugby every result is a win
\* record with confidence exactly 0.5, never a draw record.
C2_NoDrawOutsideFootball ==
    (Returned /\ wa = wb /\ call.sport \in {PyStr(basketball), PyStr(rugby)}) =>
      /\ IsWin(result)
      /\ ~IsDraw(result)
      /\ result.confidence = 50 * Grid

\* C2 witness: a rugby tie decided for team_b
C2_Witness ==
    /\ Returned
    /\ wa = wb
    /\ wa > 0
    /\ call.sport = PyStr(rugby)
    /\ call.team_a # call.team_b
    /\ result.winning_team = call.team_b

\* C3 as stated: on equal 'W' counts in football every result is a win record
\* with confidence exactly 0.5, or a draw record with prediction 'Draw', no
\* team keys and a confidence in [0.3, 0.5).
C3_HalfOpenDraw ==
    (Returned /\ wa = wb /\ call.sport = PyStr(football)) =>
      \/ IsWin(result) /\ result.confidence = 50 * Grid
      \/ /\ IsDraw(result)
         /\ 30 * Grid <= result.confidence
         /\ result.confidence < 50 * Grid

\* C3 amended: as C3, with the draw confidence in the closed interval
\* [0.3, 0.5].
C3_ClosedDraw ==
    (Returned /\ wa = wb /\ call.sport = PyStr(football)) =>
      \/ IsWin(result) /\ result.confidence = 50 * Grid
      \/ /\ IsDraw(result)
         /\ 30 * Grid <= result.confidence
         /\ result.confidence <= 50 * Grid

\* C3 witness: a football tie predicted a draw with confidence 0.5
C3_Witness ==
    /\ Returned
    /\ wa = wb
    /\ call.sport = PyStr(football)
    /\ IsDraw(result)
    /\ result.confidence = 50 * Grid

\* C4: in every result the confidence is a whole number of hundredths and at
\* most 0.95; in a win record from unequal counts it is at least 0.5.
C4_RoundedConfidence ==
    Returned =>
      /\ result.confidence % Grid = 0
      /\ result.confidence <= 95 * Grid
      /\ (IsWin(result) /\ wa # wb) => result.confidence >= 50 * Grid

\* C5: before a call on equal 'W' counts in football, each of the three
\* outcomes is a possible result: a win of team_a, a win of team_b, a draw.
C5_ThreeOutcomes ==
    (call.invoked /\ result = NoResult /\ wa = wb /\ call.sport = PyStr(football)) =>
      /\ ENABLED (Invoke /\ IsWin(result') /\ result'.winning_team = call.team_a)
      /\ ENABLED (Invoke /\ IsWin(result') /\ result'.winning_team = call.team_b)
      /\ ENABLED (Invoke /\ IsDraw(result'))

\* C10: in every win record the winning and the losing team are the two
\* input names, one each.
C10_WinnerAndLoser ==
    (Returned /\ IsWin(result)) =>
      \/ result.winning_team = call.team_a /\ result.losing_team = call.team_b
      \/ result.winning_team = call.team_b /\ result.losing_team = call.team_a

\* C10 witness: a football tie between a team named 'Draw' and another team,
\* won by the other team
C10_Witness ==
    /\ Returned
    /\ IsWin(result)
    /\ wa = wb
    /\ call.sport = PyStr(football)
    /\ call.team_a = PyStr(Draw)
    /\ call.team_b = PyStr(Lions)
    /\ result.winning_team = call.team_b
    /\ result.losing_team = call.team_a

---------------------------------------------------------------------------
(* Properties of the /predict handler (checked under Spec) *)

\* the last request was a POST /predict with a JSON object as its body
PostedObject == request.route = "/predict" /\ request.body = "object"

\* the required fields the body of the last request lacks
AbsentFields ==
    {i \in DOMAIN required_fields : request[required_fields[i]] = Absent}

\* the body holds all five required fields
AllPresent == PostedObject /\ AbsentFields = {}

\* the lower-case spelling of the sport of the last request
LowerSport ==
    CASE request.sport.str = Football -> football
      [] request.sport.str = RUGBY -> rugby
      [] OTHER -> request.sport.str

\* C6: a JSON-object body that lacks a required field is answered 400
\* "Missing field: <field>", naming the first absent field, and the
\* predictor is not invoked.
C6_MissingField ==
    (PostedObject /\ AbsentFields # {}) =>
      /\ response.status = 400
      /\ response.kind = "json"
      /\ response.error = "Missing field: {field}"
      /\ \E i \in AbsentFields :
           /\ \A j \in AbsentFields : i <= j
           /\ response.field = required_fields[i]
      /\ ~call.invoked

\* C7: with all five fields present and a string sport, the answer is the
\* 400 unsupported-sport error listing the supported sports exactly when
\* the lower-cased sport is none of football, basketball, rugby; otherwise
\* the predictor is invoked with the lower-cased sport.
C7_SportValidation ==
    (AllPresent /\ request.sport.kind = "str") =>
      /\ (/\ response.status = 400
          /\ response.kind = "json"
          /\ response.error = "Sport '{sport}' is not supported. Supported sports are: {supported_sports}"
          /\ response.supported = <<football, basketball, rugby>>)
           <=> LowerSport \notin {football, basketball, rugby}
      /\ LowerSport \in {football, basketball, rugby} =>
           /\ call.invoked
           /\ call.sport = PyStr(LowerSport)
           /\ response.status \in {200, 500}

\* C7 witness: sport "Football" on equal wins is answered with a draw
C7_Witness ==
    /\ AllPresent
    /\ request.sport = PyStr(Football)
    /\ response.status = 200
    /\ response.prediction.prediction = "Draw"

\* C8: with all five fields present every failure ends in the handler's own
\* 500 response {error: "An error occurred during prediction.", details};
\* no exception leaves the handler.
C8_FailuresCaught ==
    AllPresent =>
      /\ response.kind = "json"
      /\ response.status \notin {200, 400} =>
           /\ response.status = 500
           /\ response.error = "An error occurred during prediction."
           /\ response.details # <<>>

=============================================================================
